---- MODULE Spec2Model ----
(***************************************************************************)
(* Model of the headshot batch pipeline (src/src/processor.rs), of the     *)
(* GUI consumer that starts it and polls its channel (src/src/gui.rs), and *)
(* of the crop geometry (calculate_padded_rect).                           *)
(*                                                                         *)
(* Spec     the GUI thread and the batch worker threads it spawns          *)
(* PadSpec  calculate_padded_rect applied to one rectangle and image size   *)
(***************************************************************************)
EXTENDS Integers, Sequences, FiniteSets, TLC

(* ------------------------------ bounds --------------------------------- *)
\* Process-button clicks explored (one worker thread per click).
MaxRuns == 1
\* Largest number of files collect_image_files returns.
MaxFiles == 2
\* Largest number of rectangles the detector returns for one image.
MaxFaces == 2
\* Largest coordinate and extent of a detection rectangle in PadSpec.
MaxDim == 6
\* Largest image width and height in PadSpec: wide enough for a rectangle
\* of extent 5 (padding 5.5, rounded to 6) to be padded without clamping.
MaxSide == 17
\* Largest number of children of a directory in CollectSpec.
MaxEntries == 3
\* GallerySpec: the capacity of the thumbnail cache (100 in Gallery::new,
\* scaled down), the largest number of image files in the gallery's
\* directory, kept above the capacity, and the largest number of
\* load_images_from_directory calls.
CacheCapacity == 2
MaxPhotos == 3
MaxLoads == 2

\* Largest number of runs in RerunSpec: a failed run, a run started over
\* it, and a run started while that one is alive.
MaxReruns == MaxRuns + 2

\* Largest number of files in a folder of RerunSpec.
MaxRerunFiles == 1

Runs == 1..MaxReruns

(* ------------------------- paths and file names ------------------------ *)
\* The k-th entry of the input directory: stem and extension as on disk.
InputEntry(k) == [stem |-> k, ext |-> IF k % 2 = 1 THEN "png" ELSE "JPG"]

\* What the external codec and detector do with one input file:
\*   decode  "empty": imread gives an empty raster; "err": imread, cvt_color
\*           or detect_multi_scale returns Err; "ok": detection succeeds
\*   faces   the number of rectangles detected
\*   fail_at the face (1-based) at which faces.get, Mat::roi or imwrite
\*           returns Err; 0 when every face is written
FileKinds ==
    {f \in [decode : {"empty", "err", "ok"}, faces : 0..MaxFaces,
            fail_at : 0..MaxFaces] :
        /\ f.decode # "ok" => f.faces = 0
        /\ f.fail_at <= f.faces}

RECURSIVE SeqsUpTo(_, _)
\* The sequences over S of length at most n.
SeqsUpTo(S, n) ==
    IF n = 0 THEN {<<>>}
    ELSE LET shorter == SeqsUpTo(S, n - 1)
         IN  shorter \cup {Append(q, x) : q \in {t \in shorter : Len(t) = n - 1}, x \in S}

\* path.file_name(): stem "." ext
file_name(path) == <<path.stem, ".", path.ext>>

\* Variant of face_filename: the face index is used as it is, 0-based.
FaceFilenameZeroBased(path, face_idx) ==
    [stem |-> <<path.stem, "_face_", face_idx>>, ext |-> path.ext]

\* format!("{}/{}_face_{}.{}", dst_dir, stem, face_idx + 1, ext)
face_filename(path, face_idx) ==
    [stem |-> <<path.stem, "_face_", face_idx + 1>>, ext |-> path.ext]

\* str::to_lowercase on the extensions that occur
to_lowercase(ext) ==
    CASE ext = "JPG" -> "jpg"
      [] ext = "PNG" -> "png"
      [] OTHER -> ext

\* The gallery's extension whitelist (load_images_from_directory).
is_gallery_image(path) ==
    to_lowercase(path.ext) \in {"jpg", "jpeg", "png", "bmp", "tiff", "webp"}

\* Extensions as written on disk ("": the name has no extension).
Exts == {"png", "JPG", "jpeg", "txt", ""}

\* What fs::read_dir yields for one direct child of a directory: its
\* extension, whether it is a regular file or a subdirectory, and the number
\* of image files the subdirectory holds. The k-th child has stem k.
DirEntries ==
    {e \in [ext : Exts, kind : {"file", "dir"}, nested : 0..1] :
        e.kind = "file" => e.nested = 0}

\* entry.path() of the k-th child.
entry_path(k, e) == [stem |-> k, ext |-> e.ext]

\* is_valid_image: the extension, lowercased, is png, jpg or jpeg; a path
\* without extension is not an image.
is_valid_image(path) ==
    /\ path.ext # ""
    /\ to_lowercase(path.ext) \in {"png", "jpg", "jpeg"}

\* Result<Vec<PathBuf>>: Ok(entries), Err, or a panic that unwinds the
\* calling thread.
Ok(entries) == [outcome |-> "Ok", entries |-> entries]
Err == [outcome |-> "Err", entries |-> <<>>]
Panic == [outcome |-> "panic", entries |-> <<>>]

RECURSIVE filter_map(_, _)
\* .filter_map(...) over the first k children: the paths that pass
\* is_valid_image, in enumeration order.
filter_map(children, k) ==
    IF k = 0 THEN <<>>
    ELSE LET path == entry_path(k, children[k])
             before == filter_map(children, k - 1)
         IN  IF is_valid_image(path) THEN Append(before, path) ELSE before

\* Variant of collect_image_files: a path that is neither a file nor a
\* directory is reported as an error.
CollectMissingIsErr(path) ==
    CASE path.kind = "file" ->
           Ok(IF is_valid_image(path) THEN <<[stem |-> path.stem, ext |-> path.ext]>>
              ELSE <<>>)
      [] path.kind = "dir" ->
           IF path.readable
           THEN Ok(filter_map(path.children, Len(path.children)))
           ELSE Panic
      [] OTHER -> Err

\* collect_image_files. path.kind is "file" (is_file()), "dir" (is_dir()) or
\* "none"; read_dir on a directory that cannot be read makes expect() panic.
collect_image_files(path) ==
    CASE path.kind = "file" ->
           Ok(IF is_valid_image(path) THEN <<[stem |-> path.stem, ext |-> path.ext]>>
              ELSE <<>>)
      [] path.kind = "dir" ->
           IF path.readable
           THEN Ok(filter_map(path.children, Len(path.children)))
           ELSE Panic
      [] OTHER -> Ok(<<>>)

(* ------------------------------ messages ------------------------------- *)
\* Message texts: what the text says and the path it names (NoPath: none).
NoPath == [stem |-> 0, ext |-> ""]
NoText == [what |-> "", path |-> NoPath]
SelectFoldersText ==
    [what |-> "Please select both input and output folders", path |-> NoPath]
NoFilesText == [what |-> "No valid image files found.", path |-> NoPath]
\* format!("Error processing {}: {}", path.display(), e)
ErrorProcessingText(path) == [what |-> "Error processing {}: e", path |-> path]
\* e.to_string()
ErrText == [what |-> "e", path |-> NoPath]

Progress(filename, face_count) ==
    [type |-> "Progress", filename |-> filename, face_count |-> face_count,
     text |-> NoText]
Complete ==
    [type |-> "Complete", filename |-> <<>>, face_count |-> 0, text |-> NoText]
Error(text) ==
    [type |-> "Error", filename |-> <<>>, face_count |-> 0, text |-> text]

IsTerminal(m) == m.type \in {"Complete", "Error"}

(* ------------------------------- state --------------------------------- *)
VARIABLES
    \* HeadshotApp fields (input_path, output_path: "None" or "Some")
    input_path, output_path, processing, processed_images, total_faces,
    error_message, processing_complete,
    \* paths the gallery enumerated in its last load_images_from_directory
    gallery_paths,
    \* the mpsc channel tx -> rx: events sent and not yet received, each
    \* tagged with the run whose worker sent it
    chan,
    \* number of worker threads spawned so far
    runs,
    \* worker[r]: the thread spawned by the r-th process_images
    worker,
    \* files present in the output directory
    outdir,
    \* history: sent[r] the events run r has sent, in order
    sent,
    \* history: written[r] the files run r has written with imwrite, in order
    written,
    \* the input directory: for each whitelisted entry, in enumeration order,
    \* what the decoder, the detector and the writer do with it
    input_dir,
    \* the input directory as the runs after the first find it (the user may
    \* have selected another folder or replaced the files)
    rerun_dir,
    \* history: the run whose Complete started the last gallery load (0: none)
    scan_run,
    \* history: the events check_messages has received, in the order it
    \* handled them
    handled,
    \* history: the run of the last Complete check_messages handled (0:
    \* none) and the counters as they were at that moment
    at_complete,
    \* PadSpec: the detection rectangle, the image size and the padded crop
    face, image, rect,
    \* CollectSpec: the path given to collect_image_files and what the call
    \* gave back
    collect_path, collect_result,
    \* Gallery fields: photos (Vec<PhotoEntry>), photo_map (path -> index),
    \* texture_cache (the cached paths, least recently used first), is_loading
    photos, photo_map, texture_cache, is_loading,
    \* the crossbeam channel thumb_sender -> thumb_receiver: the paths of the
    \* thumbnails sent and not yet received
    thumb_chan,
    \* loaders[l]: the paths the thumbnail thread spawned by the l-th load
    \* has still to open; loads: the number of loads so far
    loaders, loads,
    \* the paths image::open fails on
    undecodable,
    \* history of the last Gallery::update: "stale" when it received a
    \* delivery whose path was not in photo_map, "resumed" when it went on to
    \* apply a later delivery, "" otherwise
    drained,
    \* LegacySpec: the single-face command-line program (main.rs): where it
    \* is, the entry it is at, the progress bar's position and length, and
    \* the files it has written, in order, each with the index of the
    \* detection it was cropped from
    cli,
    \* Gallery.selected_photo: None or Some(index), the index counted from 0
    selected_photo,
    \* Gallery.show_lightbox
    show_lightbox,
    \* history: the path of the photo the user selected last, by a click on
    \* its thumbnail or by Previous / Next
    selected_path

appVars == <<input_path, output_path, processing, processed_images,
             total_faces, error_message, processing_complete, gallery_paths,
             scan_run, handled, at_complete>>
workVars == <<chan, runs, worker, outdir, sent, written, input_dir, rerun_dir>>
padVars == <<face, image, rect>>
collectVars == <<collect_path, collect_result>>
galleryVars == <<photos, photo_map, texture_cache, is_loading, thumb_chan,
                 loaders, loads, undecodable, drained>>
cliVars == <<cli>>
lightVars == <<selected_photo, show_lightbox, selected_path>>
sideVars == <<padVars, collectVars, galleryVars, cliVars, lightVars>>
vars == <<appVars, workVars, sideVars>>

(* ---------------------------- crop geometry ---------------------------- *)
\* Variant of RoundPadding: the product is truncated, not rounded.
RoundPaddingTruncated(m) == (11 * m) \div 10

\* ((m as f64) * 1.1).round() as i32 for m >= 0: f64::round rounds half away
\* from zero, and the f64 product m * 1.1 is never below the exact m * 11/10,
\* so the result is floor((11 m + 5) / 10).
RoundPadding(m) == (11 * m + 5) \div 10

Max(a, b) == IF a >= b THEN a ELSE b
Min(a, b) == IF a <= b THEN a ELSE b

\* Variant of padded_left_of: the padding is added instead of subtracted.
PaddedLeftSignFlipped(f, padding) == Max(f.x + padding, 0)

\* let padded_left = (face.x - padding).max(0)
padded_left_of(f, padding) == Max(f.x - padding, 0)

\* Variant of padded_right_of: the right edge is not clamped to the image.
PaddedRightUnclamped(f, padding, img) == f.x + f.width + padding

\* Variant of padded_right_of: the padding cut off at the left edge is
\* added on the right.
PaddedRightRedistributed(f, padding, img) ==
    Min(f.x + f.width + padding + Max(padding - f.x, 0), img.cols)

\* let padded_right = (face.x + face.width + padding).min(image.cols())
padded_right_of(f, padding, img) == Min(f.x + f.width + padding, img.cols)

\* calculate_padded_rect(face, image): image.cols() x image.rows() pixels
calculate_padded_rect(f, img) ==
    LET padding == RoundPadding(Max(f.width, f.height))
        padded_top == Max(f.y - padding, 0)
        padded_left == padded_left_of(f, padding)
        padded_bottom == Min(f.y + f.height + padding, img.rows)
        padded_right == padded_right_of(f, padding, img)
        roi_width == padded_right - padded_left
        roi_height == padded_bottom - padded_top
    IN  [x |-> padded_left, y |-> padded_top,
         width |-> roi_width, height |-> roi_height]

ZeroRect == [x |-> 0, y |-> 0, width |-> 0, height |-> 0]
\* `rect` before calculate_padded_rect has assigned it.
NoRect == [x |-> -1, y |-> -1, width |-> -1, height |-> -1]

\* Images of up to MaxSide x MaxSide pixels.
Images == [cols : 0..MaxSide, rows : 0..MaxSide]

(* ------------------------------- workers ------------------------------- *)
\* A thread not spawned yet.
IdleWorker == [pc |-> "idle", entries |-> <<>>, i |-> 0,
               face_count |-> 0, face_idx |-> 0]

\* Sender::send: the channel is unbounded and its receiver lives as long as
\* the application, so the send succeeds.
Send(r, m) ==
    /\ chan' = Append(chan, [run |-> r, msg |-> m])
    /\ sent' = [sent EXCEPT ![r] = Append(@, m)]

\* Variant of NextEntry: the loop stops one entry early.
NextEntryStopsEarly(w) ==
    IF w.i + 1 < Len(w.entries)
    THEN [w EXCEPT !.pc = "load", !.i = w.i + 1, !.face_count = 0, !.face_idx = 0]
    ELSE [w EXCEPT !.pc = "complete"]

\* The for loop of process_images_with_progress after process_single_image
\* returned Ok for entry w.i: the next entry, or the code after the loop.
NextEntry(w) ==
    IF w.i < Len(w.entries)
    THEN [w EXCEPT !.pc = "load", !.i = w.i + 1, !.face_count = 0, !.face_idx = 0]
    ELSE [w EXCEPT !.pc = "complete"]

\* process_images_with_progress up to the collector: create the output
\* directory and load the cascade; either expect() panics the thread.
WorkerSetup(r) ==
    /\ worker[r].pc = "setup"
    /\ \E ok \in BOOLEAN :
         worker' = [worker EXCEPT ![r].pc = IF ok THEN "collect" ELSE "panicked"]
    /\ UNCHANGED <<chan, runs, outdir, sent, written, input_dir, rerun_dir>>
    /\ UNCHANGED <<appVars, sideVars>>

\* Variant of EmptyEntries: the message goes to stderr only, as in the branch
\* without a sender.
EmptyEntriesNotSent(r) ==
    /\ worker' = [worker EXCEPT ![r].pc = "done"]
    /\ UNCHANGED <<chan, sent>>

\* entries.is_empty(): send Error("No valid image files found."), return Ok.
EmptyEntries(r) ==
    /\ Send(r, Error(NoFilesText))
    /\ worker' = [worker EXCEPT ![r].pc = "done"]

\* The directory run r works on.
DirOf(r) == IF r = 1 THEN input_dir ELSE rerun_dir

\* The input folder of run r: a readable directory whose children are the
\* regular files InputEntry(1), InputEntry(2), ...
InputPath(r) ==
    [kind |-> "dir", readable |-> TRUE, stem |-> 0, ext |-> "",
     children |-> [k \in 1..Len(DirOf(r)) |->
                     [ext |-> InputEntry(k).ext, kind |-> "file", nested |-> 0]]]

\* collect_image_files and the is_empty() branch.
WorkerCollect(r) ==
    /\ worker[r].pc = "collect"
    /\ LET entries == collect_image_files(InputPath(r)).entries IN
         IF entries = <<>>
         THEN EmptyEntries(r)
         ELSE /\ worker' = [worker EXCEPT ![r] =
                    [@ EXCEPT !.pc = "load", !.entries = entries, !.i = 1]]
              /\ UNCHANGED <<chan, sent>>
    /\ UNCHANGED <<runs, outdir, written, input_dir, rerun_dir>>
    /\ UNCHANGED <<appVars, sideVars>>

\* Variant of EmptyRaster: an empty raster is treated as a failure.
EmptyRasterIsError(r, w) ==
    /\ worker' = [worker EXCEPT ![r].pc = "error"]
    /\ UNCHANGED <<chan, sent>>

\* image.empty(): return Ok(()) without any event.
EmptyRaster(r, w) ==
    /\ worker' = [worker EXCEPT ![r] = NextEntry(w)]
    /\ UNCHANGED <<chan, sent>>

\* Variant of LoadFailed: the failed file is skipped and the loop goes on.
LoadFailedContinue(r, w) ==
    /\ worker' = [worker EXCEPT ![r] = NextEntry(w)]
    /\ UNCHANGED <<chan, sent>>

\* imread, cvt_color or detect_multi_scale returned Err: `?` returns it.
LoadFailed(r, w) ==
    /\ worker' = [worker EXCEPT ![r].pc = "error"]
    /\ UNCHANGED <<chan, sent>>

\* Variant of Detected: Progress is sent only for images with a face.
DetectedProgressIfFaces(r, w, n) ==
    /\ IF n > 0
       THEN Send(r, Progress(file_name(w.entries[w.i]), n))
       ELSE UNCHANGED <<chan, sent>>
    /\ worker' = [worker EXCEPT ![r] =
                    [w EXCEPT !.pc = "faces", !.face_count = n, !.face_idx = 0]]

\* The detector returned n rectangles: send Progress, then enter the loop.
Detected(r, w, n) ==
    /\ Send(r, Progress(file_name(w.entries[w.i]), n))
    /\ worker' = [worker EXCEPT ![r] =
                    [w EXCEPT !.pc = "faces", !.face_count = n, !.face_idx = 0]]

\* process_single_image up to the Progress send: imread, the empty-raster
\* return, cvt_color, detect_multi_scale and the send.
WorkerLoad(r) ==
    LET w == worker[r]
        file == DirOf(r)[w.i]
    IN
    /\ w.pc = "load"
    /\ CASE file.decode = "empty" -> EmptyRaster(r, w)
         [] file.decode = "err" -> LoadFailed(r, w)
         [] OTHER -> Detected(r, w, file.faces)
    /\ UNCHANGED <<runs, outdir, written, input_dir, rerun_dir>>
    /\ UNCHANGED <<appVars, sideVars>>

\* One iteration of `for face_idx in 0..face_count`: faces.get, Mat::roi and
\* imwrite succeed and the file is written, or one of them returns Err.
WorkerFace(r) ==
    LET w == worker[r]
        file == DirOf(r)[w.i]
    IN
    /\ w.pc = "faces"
    /\ w.face_idx < w.face_count
    /\ IF file.fail_at # w.face_idx + 1
       THEN /\ outdir' = outdir \cup {face_filename(w.entries[w.i], w.face_idx)}
            /\ written' = [written EXCEPT ![r] =
                             Append(@, face_filename(w.entries[w.i], w.face_idx))]
            /\ worker' = [worker EXCEPT ![r].face_idx = w.face_idx + 1]
       ELSE /\ worker' = [worker EXCEPT ![r].pc = "error"]
            /\ UNCHANGED <<outdir, written>>
    /\ UNCHANGED <<chan, runs, sent, input_dir, rerun_dir>>
    /\ UNCHANGED <<appVars, sideVars>>

\* The face loop is over: process_single_image returns Ok(()).
WorkerFileDone(r) ==
    LET w == worker[r] IN
    /\ w.pc = "faces"
    /\ w.face_idx = w.face_count
    /\ worker' = [worker EXCEPT ![r] = NextEntry(w)]
    /\ UNCHANGED <<chan, runs, outdir, sent, written, input_dir, rerun_dir>>
    /\ UNCHANGED <<appVars, sideVars>>

\* The `if let Err(e)` branch of the loop: send Error, return Err(e).
WorkerError(r) ==
    LET w == worker[r] IN
    /\ w.pc = "error"
    /\ Send(r, Error(ErrorProcessingText(w.entries[w.i])))
    /\ worker' = [worker EXCEPT ![r].pc = "returned_err"]
    /\ UNCHANGED <<runs, outdir, written, input_dir, rerun_dir>>
    /\ UNCHANGED <<appVars, sideVars>>

\* The closure of thread::spawn: process_images_with_progress returned
\* Err(e), so the closure sends Error(e.to_string()).
WorkerClosure(r) ==
    /\ worker[r].pc = "returned_err"
    /\ Send(r, Error(ErrText))
    /\ worker' = [worker EXCEPT ![r].pc = "done"]
    /\ UNCHANGED <<runs, outdir, written, input_dir, rerun_dir>>
    /\ UNCHANGED <<appVars, sideVars>>

\* After the loop: send Complete and return Ok(()).
WorkerComplete(r) ==
    /\ worker[r].pc = "complete"
    /\ Send(r, Complete)
    /\ worker' = [worker EXCEPT ![r].pc = "done"]
    /\ UNCHANGED <<runs, outdir, written, input_dir, rerun_dir>>
    /\ UNCHANGED <<appVars, sideVars>>

(* --------------------------- the GUI thread ---------------------------- *)
\* Gallery::load_images_from_directory: the entries of the directory whose
\* extension passes the gallery's whitelist.
load_images_from_directory(dir) == {path \in dir : is_gallery_image(path)}

\* The HeadshotApp fields check_messages reads and writes.
App == [processing |-> processing, processed_images |-> processed_images,
        total_faces |-> total_faces, error_message |-> error_message,
        processing_complete |-> processing_complete,
        gallery_paths |-> gallery_paths, scan_run |-> scan_run,
        handled |-> handled, rx |-> chan, at_complete |-> at_complete]

\* One arm of the match in check_messages; env is a received event.
HandleMessage(app, env) ==
    CASE env.msg.type = "Progress" ->
           [app EXCEPT !.processed_images = @ + 1,
                       !.total_faces = @ + env.msg.face_count]
      [] env.msg.type = "Complete" ->
           LET done == [app EXCEPT !.processing = FALSE,
                                   !.error_message = NoText,
                                   !.processing_complete = TRUE]
           IN  IF output_path = "Some"
               THEN [done EXCEPT
                       !.gallery_paths = load_images_from_directory(outdir),
                       !.scan_run = env.run]
               ELSE done
      [] OTHER ->
           [app EXCEPT !.processing = FALSE,
                       !.error_message = env.msg.text,
                       !.processing_complete = FALSE]

\* rx.try_recv() gave Ok(message): the oldest buffered event leaves the
\* channel and its arm of the match runs.
Received(app, queue) ==
    [HandleMessage(app, Head(queue)) EXCEPT
        !.handled = Append(@, Head(queue)),
        !.rx = Tail(queue),
        !.at_complete = IF Head(queue).msg.type = "Complete"
                        THEN [run |-> Head(queue).run,
                              processed_images |-> app.processed_images,
                              total_faces |-> app.total_faces]
                        ELSE @]

\* Variant of check_messages: if let instead of while let, one event is
\* received per call.
CheckMessagesOnce(app, queue) ==
    IF queue = <<>> THEN app ELSE Received(app, queue)

\* check_messages: while let Ok(message) = rx.try_recv() over the events
\* buffered in the channel, oldest first.
RECURSIVE check_messages(_, _)
check_messages(app, queue) ==
    IF queue = <<>> THEN app
    ELSE check_messages(Received(app, queue), Tail(queue))

Buttons == {"none", "select_input", "select_output", "process"}

\* One frame of HeadshotApp::update: check_messages, then the button the
\* user clicked in this frame, if any. The Process button is drawn only
\* while processing is false. At most `limit` runs are started.
Frame(button, limit) ==
    LET app == check_messages(App, chan)
        spawn == button = "process" /\ input_path = "Some" /\ output_path = "Some"
    IN
    /\ button = "process" => ~app.processing
    /\ spawn => runs < limit
    /\ chan' = app.rx
    /\ handled' = app.handled
    /\ at_complete' = app.at_complete
    /\ input_path' = IF button = "select_input" THEN "Some" ELSE input_path
    /\ output_path' = IF button = "select_output" THEN "Some" ELSE output_path
    /\ processing' = (spawn \/ app.processing)
    /\ processed_images' = IF spawn THEN 0 ELSE app.processed_images
    /\ total_faces' = IF spawn THEN 0 ELSE app.total_faces
    /\ error_message' =
         CASE button \in {"select_input", "select_output"} -> NoText
           [] button = "process" -> IF spawn THEN NoText ELSE SelectFoldersText
           [] OTHER -> app.error_message
    /\ processing_complete' = app.processing_complete
    /\ gallery_paths' = app.gallery_paths
    /\ scan_run' = app.scan_run
    /\ runs' = IF spawn THEN runs + 1 ELSE runs
    /\ worker' = IF spawn THEN [worker EXCEPT ![runs + 1].pc = "setup"] ELSE worker
    /\ UNCHANGED <<outdir, sent, written, input_dir, rerun_dir>>
    /\ UNCHANGED sideVars

Update(button) == Frame(button, MaxRuns)

(* --------------------------- specification ----------------------------- *)
NoComplete == [run |-> 0, processed_images |-> 0, total_faces |-> 0]

PipelineInit ==
    /\ input_path = "None" /\ output_path = "None"
    /\ processing = FALSE /\ processed_images = 0 /\ total_faces = 0
    /\ error_message = NoText /\ processing_complete = FALSE
    /\ gallery_paths = {} /\ scan_run = 0 /\ handled = <<>>
    /\ at_complete = NoComplete
    /\ chan = <<>> /\ runs = 0
    /\ worker = [r \in Runs |-> IdleWorker]
    /\ outdir = {}
    /\ sent = [r \in Runs |-> <<>>]
    /\ written = [r \in Runs |-> <<>>]

\* No crop is being computed: no image, no detection, no crop.
PadZero ==
    /\ image = [cols |-> 0, rows |-> 0]
    /\ face = ZeroRect
    /\ rect = NoRect

\* Gallery::new(): no photos, an empty cache, no loader thread.
IdleLoader == <<>>
GalleryNew ==
    /\ photos = <<>>
    /\ photo_map = <<>>
    /\ texture_cache = <<>>
    /\ is_loading = FALSE
    /\ thumb_chan = <<>>
    /\ loaders = [l \in 1..MaxLoads |-> IdleLoader]
    /\ loads = 0
    /\ drained = ""

\* The command-line program has not been started.
\* Option<usize>
None == <<>>
Some(x) == <<x>>

\* Gallery::new: nothing selected, the lightbox closed.
LightboxClosed ==
    /\ selected_photo = None
    /\ show_lightbox = FALSE
    /\ selected_path = None

IdleCli == [pc |-> "idle", i |-> 0, pos |-> 0, len |-> 0, written |-> <<>>]
CliZero == cli = IdleCli

\* collect_image_files has not been called on its own.
NoCollectPath ==
    [kind |-> "none", readable |-> FALSE, stem |-> 0, ext |-> "", children |-> <<>>]
NotCollected == [outcome |-> "none", entries |-> <<>>]
CollectZero ==
    /\ collect_path = NoCollectPath
    /\ collect_result = NotCollected

\* The input directory holds any files of any kinds, up to MaxFiles.
Init ==
    /\ PipelineInit
    /\ input_dir \in SeqsUpTo(FileKinds, MaxFiles)
    /\ rerun_dir = input_dir
    /\ PadZero
    /\ CollectZero
    /\ GalleryNew
    /\ LightboxClosed
    /\ undecodable = {}
    /\ CliZero

WorkerStep(r) ==
    \/ WorkerSetup(r)
    \/ WorkerCollect(r)
    \/ WorkerLoad(r)
    \/ WorkerFace(r)
    \/ WorkerFileDone(r)
    \/ WorkerError(r)
    \/ WorkerClosure(r)
    \/ WorkerComplete(r)

Next ==
    \/ \E button \in Buttons : Update(button)
    \/ \E r \in Runs : WorkerStep(r)

Spec == Init /\ [][Next]_vars

(* RerunSpec: runs started again, over a folder that may have changed *)
RerunInit ==
    /\ PipelineInit
    /\ input_dir \in SeqsUpTo(FileKinds, MaxRerunFiles)
    /\ rerun_dir \in SeqsUpTo(FileKinds, MaxRerunFiles)
    /\ PadZero
    /\ CollectZero
    /\ GalleryNew
    /\ LightboxClosed
    /\ undecodable = {}
    /\ CliZero

RerunNext ==
    \/ \E button \in Buttons : Frame(button, MaxReruns)
    \/ \E r \in Runs : WorkerStep(r)

RerunSpec == RerunInit /\ [][RerunNext]_vars

(* PadSpec: calculate_padded_rect applied to any rectangle and image size *)
Rects == [x : 0..MaxDim, y : 0..MaxDim, width : 0..MaxDim, height : 0..MaxDim]

\* The rectangle lies inside the image.
Inside(f, img) ==
    /\ 0 <= f.x /\ 0 <= f.y /\ 0 <= f.width /\ 0 <= f.height
    /\ f.x + f.width <= img.cols
    /\ f.y + f.height <= img.rows

\* The detector has returned rectangle `face` for an image of size `image`.
PadInit ==
    /\ PipelineInit
    /\ input_dir = <<>> /\ rerun_dir = <<>>
    /\ image \in Images
    /\ face \in Rects
    /\ rect = NoRect
    /\ CollectZero
    /\ GalleryNew
    /\ LightboxClosed
    /\ undecodable = {}
    /\ CliZero

\* let rect = calculate_padded_rect(&face, &image)
PadApply ==
    /\ rect = NoRect
    /\ rect' = calculate_padded_rect(face, image)
    /\ UNCHANGED <<face, image, appVars, workVars, collectVars,
                   galleryVars, cliVars, lightVars>>

PadSpec == PadInit /\ [][PadApply]_vars

(* CollectSpec: collect_image_files applied to any path *)
\* The paths collect_image_files can be given: a regular file with any
\* extension, a directory (readable or not) with up to MaxEntries children,
\* or a path that is neither.
CollectPaths ==
    {[kind |-> "file", readable |-> TRUE, stem |-> 1, ext |-> x, children |-> <<>>] :
        x \in Exts}
    \cup {[kind |-> "dir", readable |-> TRUE, stem |-> 0, ext |-> "", children |-> c] :
        c \in SeqsUpTo(DirEntries, MaxEntries)}
    \cup {[kind |-> "dir", readable |-> FALSE, stem |-> 0, ext |-> "", children |-> <<>>],
          NoCollectPath}

CollectInit ==
    /\ PipelineInit
    /\ input_dir = <<>> /\ rerun_dir = <<>>
    /\ PadZero
    /\ collect_path \in CollectPaths
    /\ collect_result = NotCollected
    /\ GalleryNew
    /\ LightboxClosed
    /\ undecodable = {}
    /\ CliZero

\* let entries = collect_image_files(input_dir)?
CollectApply ==
    /\ collect_result = NotCollected
    /\ collect_result' = collect_image_files(collect_path)
    /\ UNCHANGED <<collect_path, appVars, workVars, padVars,
                   galleryVars, cliVars, lightVars>>

CollectSpec == CollectInit /\ [][CollectApply]_vars

(* LegacySpec: main.rs, the single-face command-line program *)
\* format!("{}/clip_{}", dst_dir, filename)
clip_filename(path) == [stem |-> <<"clip_", path.stem>>, ext |-> path.ext]

\* main up to the loop: the entries are collected; without entries the
\* program returns Ok(()), otherwise the progress bar is created with one
\* unit per entry.
MainStart ==
    /\ cli.pc = "start"
    /\ cli' = IF input_dir = <<>>
              THEN [cli EXCEPT !.pc = "done"]
              ELSE [cli EXCEPT !.pc = "loop", !.i = 1, !.len = Len(input_dir)]
    /\ UNCHANGED <<appVars, workVars, padVars, collectVars,
                   galleryVars, lightVars>>

\* Variant of SkipEmptyImage: the progress bar is not advanced.
SkipEmptyImageNoInc(c) == [c EXCEPT !.i = @ + 1]

\* image.empty(): pb.println, pb.inc(1), continue.
SkipEmptyImage(c) == [c EXCEPT !.i = @ + 1, !.pos = @ + 1]

\* faces.len() > 0: the first detection is cropped and written as
\* clip_{filename}; then pb.inc(1).
ClipFirstFace(c, file) ==
    [c EXCEPT !.i = @ + 1, !.pos = @ + 1,
              !.written = IF file.faces > 0
                          THEN Append(@, [name |-> clip_filename(InputEntry(c.i)),
                                          face |-> 0])
                          ELSE @]

\* One iteration of the loop over the entries. imread, cvt_color,
\* detect_multi_scale, faces.get(0), Mat::roi or imwrite returning Err ends
\* main with that error (the ? operator).
MainIteration ==
    /\ cli.pc = "loop"
    /\ cli.i <= Len(input_dir)
    /\ LET file == input_dir[cli.i] IN
       cli' = CASE file.decode = "empty" -> SkipEmptyImage(cli)
                [] file.decode = "err" \/ (file.faces > 0 /\ file.fail_at = 1) ->
                     [cli EXCEPT !.pc = "err"]
                [] OTHER -> ClipFirstFace(cli, file)
    /\ UNCHANGED <<appVars, workVars, padVars, collectVars,
                   galleryVars, lightVars>>

\* pb.finish_with_message("Processing complete"); Ok(())
MainFinish ==
    /\ cli.pc = "loop"
    /\ cli.i > Len(input_dir)
    /\ cli' = [cli EXCEPT !.pc = "done"]
    /\ UNCHANGED <<appVars, workVars, padVars, collectVars,
                   galleryVars, lightVars>>

\* The program is started on a directory holding any files of any kinds.
LegacyInit ==
    /\ PipelineInit
    /\ input_dir \in SeqsUpTo(FileKinds, MaxFiles)
    /\ rerun_dir = input_dir
    /\ PadZero
    /\ CollectZero
    /\ GalleryNew
    /\ LightboxClosed
    /\ undecodable = {}
    /\ cli = [IdleCli EXCEPT !.pc = "start"]

LegacyNext == MainStart \/ MainIteration \/ MainFinish

LegacySpec == LegacyInit /\ [][LegacyNext]_vars

(* GallerySpec: directory loads, thumbnail threads and Gallery::update *)
\* The files the gallery's directory may hold: image files 1..MaxPhotos and
\* a text file.
GalleryFiles ==
    {[stem |-> k, ext |-> "png"] : k \in 1..MaxPhotos}
    \cup {[stem |-> 0, ext |-> "txt"]}

\* The directory after its first k image files were removed.
Listing(k) == {file \in GalleryFiles : file.stem = 0 \/ file.stem > k}

\* PhotoEntry::new(path); `assigned` counts the assignments of thumb_tex.
PhotoEntry(path) == [path |-> path, thumb_tex |-> "None", assigned |-> 0]

\* The paths of S in the order read_dir yields them (by name).
Enumerate(S) ==
    [i \in 1..Cardinality(S) |->
        CHOOSE path \in S : Cardinality({q \in S : q.stem < path.stem}) = i - 1]

\* Variant of put: a plain map insert, nothing is ever evicted.
PutUnbounded(cache, key) ==
    LET Other(k) == k # key
    IN  Append(SelectSeq(cache, Other), key)

\* LruCache::put(key, texture): a cached key becomes the most recently used;
\* a new key evicts the least recently used one when the cache is full.
put(cache, key) ==
    LET Other(k) == k # key
        rest == SelectSeq(cache, Other)
    IN  IF Len(rest) < Len(cache) THEN Append(rest, key)
        ELSE IF Len(cache) = CacheCapacity THEN Append(Tail(cache), key)
        ELSE Append(cache, key)

\* Variant of on_thumbnail: a delivery for a path that is not in photo_map
\* ends the draining, the rest of the channel is dropped.
OnThumbnailStaleStops(g, path) ==
    IF g.stopped THEN g
    ELSE IF path \in DOMAIN photo_map
    THEN LET index == photo_map[path] IN
         [g EXCEPT !.photos[index].thumb_tex = "Some",
                   !.photos[index].assigned = @ + 1,
                   !.texture_cache = put(@, path),
                   !.drained = IF @ = "stale" THEN "resumed" ELSE @]
    ELSE [g EXCEPT !.stopped = TRUE]

\* The body of the while let loop of Gallery::update for one delivery.
on_thumbnail(g, path) ==
    IF path \in DOMAIN photo_map
    THEN LET index == photo_map[path] IN
         [g EXCEPT !.photos[index].thumb_tex = "Some",
                   !.photos[index].assigned = @ + 1,
                   !.texture_cache = put(@, path),
                   !.drained = IF @ = "stale" THEN "resumed" ELSE @]
    ELSE [g EXCEPT !.drained = IF @ = "" THEN "stale" ELSE @]

\* while let Ok((path, color_img)) = rx.try_recv(), oldest delivery first.
RECURSIVE drain(_, _)
drain(g, queue) ==
    IF queue = <<>> THEN g
    ELSE drain(on_thumbnail(g, Head(queue)), Tail(queue))

\* Variant of update: the loading flag is cleared as soon as one photo has
\* its thumbnail.
UpdateClearsOnAny ==
    LET g == drain([photos |-> photos, texture_cache |-> texture_cache,
                    drained |-> "", stopped |-> FALSE], thumb_chan)
        any_loaded == \E i \in 1..Len(g.photos) : g.photos[i].thumb_tex = "Some"
    IN
    /\ photos' = g.photos
    /\ texture_cache' = g.texture_cache
    /\ drained' = g.drained
    /\ thumb_chan' = <<>>
    /\ is_loading' = (is_loading /\ ~any_loaded)
    /\ UNCHANGED <<photo_map, loaders, loads, undecodable>>
    /\ UNCHANGED <<appVars, workVars, padVars, collectVars, cliVars>>

\* Gallery::update as a frame runs it, before the windows are shown.
update ==
    LET g == drain([photos |-> photos, texture_cache |-> texture_cache,
                    drained |-> "", stopped |-> FALSE], thumb_chan)
        all_loaded == \A i \in 1..Len(g.photos) : g.photos[i].thumb_tex = "Some"
    IN
    /\ photos' = g.photos
    /\ texture_cache' = g.texture_cache
    /\ drained' = g.drained
    /\ thumb_chan' = <<>>
    /\ is_loading' = (is_loading /\ ~all_loaded)
    /\ UNCHANGED <<photo_map, loaders, loads, undecodable>>
    /\ UNCHANGED <<appVars, workVars, padVars, collectVars, cliVars>>

\* A frame in which the user clicks nothing in the gallery.
GalleryUpdate == update /\ UNCHANGED lightVars

\* Variant of GalleryLoad: the texture cache survives the reload.
GalleryLoadKeepsCache(listing) ==
    LET paths == Enumerate(load_images_from_directory(listing)) IN
    /\ loads < MaxLoads
    /\ photos' = [i \in 1..Len(paths) |-> PhotoEntry(paths[i])]
    /\ photo_map' = [path \in {paths[i] : i \in 1..Len(paths)} |->
                       CHOOSE i \in 1..Len(paths) : paths[i] = path]
    /\ is_loading' = TRUE
    /\ loads' = loads + 1
    /\ loaders' = [loaders EXCEPT ![loads + 1] = paths]
    /\ UNCHANGED <<texture_cache, thumb_chan, undecodable, drained>>
    /\ UNCHANGED <<appVars, workVars, padVars, collectVars, cliVars,
                   lightVars>>

\* Gallery::load_images_from_directory on a directory holding `listing`.
GalleryLoad(listing) ==
    LET paths == Enumerate(load_images_from_directory(listing)) IN
    /\ loads < MaxLoads
    /\ photos' = [i \in 1..Len(paths) |-> PhotoEntry(paths[i])]
    /\ photo_map' = [path \in {paths[i] : i \in 1..Len(paths)} |->
                       CHOOSE i \in 1..Len(paths) : paths[i] = path]
    /\ texture_cache' = <<>>
    /\ is_loading' = TRUE
    /\ loads' = loads + 1
    /\ loaders' = [loaders EXCEPT ![loads + 1] = paths]
    /\ UNCHANGED <<thumb_chan, undecodable, drained>>
    /\ UNCHANGED <<appVars, workVars, padVars, collectVars, cliVars,
                   lightVars>>

\* Variant of LoaderStep: a path that fails to decode ends the thread.
LoaderStopsOnFailure(l) ==
    /\ loaders[l] # <<>>
    /\ IF Head(loaders[l]) \in undecodable
       THEN /\ loaders' = [loaders EXCEPT ![l] = <<>>]
            /\ UNCHANGED thumb_chan
       ELSE /\ loaders' = [loaders EXCEPT ![l] = Tail(@)]
            /\ thumb_chan' = Append(thumb_chan, Head(loaders[l]))
    /\ UNCHANGED <<photos, photo_map, texture_cache, is_loading, loads,
                   undecodable, drained>>
    /\ UNCHANGED <<appVars, workVars, padVars, collectVars, cliVars,
                   lightVars>>

\* One iteration of the thumbnail thread's loop: image::open of the next
\* path, and the send when the file decodes.
LoaderStep(l) ==
    /\ loaders[l] # <<>>
    /\ loaders' = [loaders EXCEPT ![l] = Tail(@)]
    /\ thumb_chan' = IF Head(loaders[l]) \in undecodable THEN thumb_chan
                     ELSE Append(thumb_chan, Head(loaders[l]))
    /\ UNCHANGED <<photos, photo_map, texture_cache, is_loading, loads,
                   undecodable, drained>>
    /\ UNCHANGED <<appVars, workVars, padVars, collectVars, cliVars,
                   lightVars>>

GalleryInit ==
    /\ PipelineInit
    /\ input_dir = <<>> /\ rerun_dir = <<>>
    /\ PadZero
    /\ CollectZero
    /\ CliZero
    /\ GalleryNew
    /\ LightboxClosed
    /\ undecodable \in SUBSET load_images_from_directory(GalleryFiles)

GalleryNext ==
    \/ \E k \in 0..MaxPhotos : GalleryLoad(Listing(k))
    \/ \E l \in 1..MaxLoads : LoaderStep(l)
    \/ GalleryUpdate

GallerySpec == GalleryInit /\ [][GalleryNext]_vars

\* The operating system schedules every thumbnail thread, and update() is
\* called in every frame (frames are requested while is_loading).
GalleryFairSpec ==
    /\ GalleryInit /\ [][GalleryNext]_vars
    /\ WF_vars(GalleryUpdate)
    /\ \A l \in 1..MaxLoads : WF_vars(LoaderStep(l))

(* LightboxSpec: the gallery with the user selecting photos *)
\* A frame in which the user clicks the thumbnail at photo_index: the grid
\* of Gallery::show draws a button only for a photo whose thumbnail is
\* present.
ClickThumbnail(photo_index) ==
    /\ update
    /\ photo_index < Len(photos')
    /\ photos'[photo_index + 1].thumb_tex = "Some"
    /\ selected_photo' = Some(photo_index)
    /\ show_lightbox' = TRUE
    /\ selected_path' = Some(photos'[photo_index + 1].path)

\* Gallery::show opens the lightbox window, and the window draws its
\* Previous / Next row for photos.get(index).
LightboxOpen == show_lightbox /\ selected_photo # None
LightboxPhoto == LightboxOpen /\ selected_photo[1] < Len(photos')

\* A frame in which the user presses Previous.
PressPrevious ==
    /\ update
    /\ LightboxPhoto
    /\ LET index == selected_photo[1] IN
       IF index > 0
       THEN /\ selected_photo' = Some(index - 1)
            /\ selected_path' = Some(photos'[index].path)
       ELSE UNCHANGED <<selected_photo, selected_path>>
    /\ UNCHANGED show_lightbox

\* A frame in which the user presses Next.
PressNext ==
    /\ update
    /\ LightboxPhoto
    /\ LET index == selected_photo[1] IN
       IF index < Len(photos') - 1
       THEN /\ selected_photo' = Some(index + 1)
            /\ selected_path' = Some(photos'[index + 2].path)
       ELSE UNCHANGED <<selected_photo, selected_path>>
    /\ UNCHANGED show_lightbox

\* A frame in which the user closes the lightbox window.
CloseLightbox ==
    /\ update
    /\ LightboxOpen
    /\ show_lightbox' = FALSE
    /\ UNCHANGED <<selected_photo, selected_path>>

LightboxNext ==
    \/ GalleryNext
    \/ \E photo_index \in 0..(MaxPhotos - 1) : ClickThumbnail(photo_index)
    \/ PressPrevious
    \/ PressNext
    \/ CloseLightbox

LightboxSpec == GalleryInit /\ [][LightboxNext]_vars

(* ======================= properties of the pipeline ==================== *)
Range(q) == {q[i] : i \in 1..Len(q)}

N == Len(input_dir)

\* File k cannot be processed: decoding or detection returns Err, or the
\* crop or write of one of its faces does.
Hard(k) == input_dir[k].decode = "err" \/ input_dir[k].fail_at > 0

\* The first file of the input whose processing fails hard (0: none).
FirstHard ==
    IF \E k \in 1..N : Hard(k)
    THEN CHOOSE k \in 1..N : Hard(k) /\ \A j \in 1..(k - 1) : ~Hard(j)
    ELSE 0

RECURSIVE SumFaces(_)
\* f_1 + ... + f_k
SumFaces(k) == IF k = 0 THEN 0 ELSE SumFaces(k - 1) + input_dir[k].faces

\* The Progress event of file k and the first n artifacts of file k.
ProgressOf(k) == Progress(file_name(InputEntry(k)), input_dir[k].faces)
ArtifactsOf(k, n) == {face_filename(InputEntry(k), j) : j \in 0..(n - 1)}

\* Run r has returned from process_images_with_progress and its closure.
Finished(r) == worker[r].pc = "done"

Terminals(q) == {i \in 1..Len(q) : IsTerminal(q[i])}

\* C1: the events a run sends are zero or more Progress events followed by
\* exactly one terminal event (Complete or Error): no event follows a
\* terminal event, and a run that has returned has sent exactly one.
C1_ProgressThenOneTerminal ==
    \A r \in Runs :
        /\ \A i \in Terminals(sent[r]) : i = Len(sent[r])
        /\ Finished(r) => Cardinality(Terminals(sent[r])) = 1

\* C2: a finished run over N >= 1 decodable images without hard failure has
\* written exactly f_1 + ... + f_N artifacts, all different, and has sent
\* Progress(filename_k, f_k) for k = 1..N in input order and then Complete.
C2_ArtifactsAndEvents ==
    \A r \in Runs :
        (/\ Finished(r)
         /\ N >= 1
         /\ \A k \in 1..N : input_dir[k].decode = "ok" /\ ~Hard(k))
        => /\ Len(written[r]) = SumFaces(N)
           /\ Cardinality(Range(written[r])) = SumFaces(N)
           /\ Range(written[r]) \subseteq outdir
           /\ Len(sent[r]) = N + 1
           /\ \A k \in 1..N : sent[r][k] = ProgressOf(k)
           /\ sent[r][N + 1] = Complete

\* A finished run over two images with 2 and 0 detections.
C2_Witness ==
    \E r \in Runs :
        /\ Finished(r)
        /\ N = 2
        /\ \A k \in 1..N : input_dir[k].decode = "ok" /\ ~Hard(k)
        /\ input_dir[1].faces = 2 /\ input_dir[2].faces = 0

\* C3: a run whose collector returns no files sends exactly one event, the
\* Error "No valid image files found.", and writes nothing.
C3_EmptyInput ==
    \A r \in Runs :
        (N = 0 /\ worker[r].pc \notin {"idle", "setup", "panicked"})
        => /\ written[r] = <<>>
           /\ \A i \in 1..Len(sent[r]) : sent[r][i] = Error(NoFilesText)
           /\ Len(sent[r]) <= 1
           /\ Finished(r) => Len(sent[r]) = 1
           /\ worker[r].pc \in {"collect", "done"}

\* A run over an empty input has finished.
C3_Witness == \E r \in Runs : N = 0 /\ Finished(r)

\* The artifacts written before the hard failure at file k: every face of
\* the files before k and the faces of k before the failing one.
WrittenBefore(k) ==
    UNION {ArtifactsOf(j, input_dir[j].faces) : j \in 1..(k - 1)}
    \cup (IF input_dir[k].fail_at > 0
          THEN ArtifactsOf(k, input_dir[k].fail_at - 1) ELSE {})

Stopped(r) == worker[r].pc \in {"error", "returned_err", "done"}

\* C4: when file k is the first to fail hard, the run stops at k: it never
\* moves to a later file, sends no Progress for a later file and no Complete,
\* writes nothing for a later file, and once it has failed the artifacts
\* written before the failure are all in the output directory.
C4_HardFailureStops ==
    \A r \in Runs :
        LET k == FirstHard IN
        k # 0 =>
          /\ worker[r].i <= k
          /\ Complete \notin Range(sent[r])
          /\ \A m \in Range(sent[r]) :
               m.type = "Progress" =>
                 m.filename \in {file_name(InputEntry(j)) : j \in 1..k}
          /\ Range(written[r]) \subseteq
               UNION {ArtifactsOf(j, input_dir[j].faces) : j \in 1..k}
          /\ Range(written[r]) \subseteq outdir
          /\ worker[r].i = k /\ Stopped(r) =>
               /\ Range(written[r]) = WrittenBefore(k)
               /\ WrittenBefore(k) \subseteq outdir

\* A run that failed at the second face of its second file, after writing
\* the faces of the first file and the first face of the second.
C4_Witness ==
    \E r \in Runs :
        /\ Finished(r)
        /\ N = 2
        /\ FirstHard = 2
        /\ input_dir[1].faces >= 1
        /\ input_dir[2].fail_at = 2
        /\ WrittenBefore(2) \subseteq outdir
        /\ Cardinality(WrittenBefore(2)) >= 2

\* C5: whenever Progress(filename, n) has been sent, the n artifacts of
\* that file have been written.
C5_ProgressAfterArtifacts ==
    \A r \in Runs :
        \A m \in Range(sent[r]) :
            m.type = "Progress" =>
              \E k \in 1..N :
                  /\ m.filename = file_name(InputEntry(k))
                  /\ ArtifactsOf(k, m.face_count) \subseteq Range(written[r])

\* The files after k that the run processes: up to the end, or up to the
\* file before the first hard failure.
LaterProcessed(k) ==
    {j \in (k + 1)..N : FirstHard = 0 \/ j < FirstHard}

\* C6: a file whose decode yields an empty raster gets no Progress event, no
\* Error event and no artifact; the worker goes on after it, so that a
\* finished run has sent the Progress of every later decodable file it
\* reached and, without a hard failure, ends with Complete.
C6_EmptyRasterSkipped ==
    \A r \in Runs :
        \A k \in 1..N :
            input_dir[k].decode = "empty" =>
              /\ \A m \in Range(sent[r]) :
                   /\ m.type = "Progress" => m.filename # file_name(InputEntry(k))
                   /\ m.type = "Error" => m.text.path # InputEntry(k)
              /\ ArtifactsOf(k, MaxFaces) \cap Range(written[r]) = {}
              /\ worker[r].i = k => worker[r].pc \in {"load", "complete", "done"}
              /\ Finished(r) /\ (FirstHard = 0 \/ FirstHard > k) =>
                   \A j \in LaterProcessed(k) :
                       input_dir[j].decode = "ok" => ProgressOf(j) \in Range(sent[r])
              /\ Finished(r) /\ FirstHard = 0 =>
                   sent[r][Len(sent[r])] = Complete

\* A finished run whose first file was empty and whose second file was
\* processed, with faces, and that ended with Complete.
C6_Witness ==
    \E r \in Runs :
        /\ Finished(r)
        /\ N = 2
        /\ input_dir[1].decode = "empty"
        /\ input_dir[2].faces >= 1
        /\ sent[r] = <<ProgressOf(2), Complete>>

C8_TerminalEventSent ==
    \A r \in Runs :
        worker[r].pc \in {"done", "panicked"} => Terminals(sent[r]) # {}

(* ===================== properties of the crop geometry ================= *)
\* C9: for a detection rectangle inside a W x H image the padded crop has
\* 0 <= left <= right <= W and 0 <= top <= bottom <= H.
C9_CropInsideImage ==
    (rect # NoRect /\ Inside(face, image)) =>
        /\ 0 <= rect.x
        /\ rect.x <= rect.x + rect.width
        /\ rect.x + rect.width <= image.cols
        /\ 0 <= rect.y
        /\ rect.y <= rect.y + rect.height
        /\ rect.y + rect.height <= image.rows

\* A crop of a non-empty rectangle inside the image whose padding is cut
\* at the right and bottom edges but not at the left and top ones.
C9_Witness ==
    /\ rect # NoRect
    /\ Inside(face, image)
    /\ face.width > 0 /\ face.height > 0
    /\ face.x + face.width + RoundPadding(Max(face.width, face.height)) > image.cols
    /\ face.y + face.height + RoundPadding(Max(face.width, face.height)) > image.rows
    /\ rect.x > 0 /\ rect.y > 0

\* C10: for a detection rectangle inside the image the padded crop contains
\* the detection rectangle, and it is non-empty when the detection
\* rectangle is.
C10_CropContainsFace ==
    (rect # NoRect /\ Inside(face, image)) =>
        /\ rect.x <= face.x
        /\ rect.y <= face.y
        /\ face.x + face.width <= rect.x + rect.width
        /\ face.y + face.height <= rect.y + rect.height
        /\ (face.width > 0 /\ face.height > 0) =>
               (rect.width > 0 /\ rect.height > 0)

\* A crop of a non-empty rectangle that touches the left and top edges of
\* the image: the crop is larger than the rectangle.
C10_Witness ==
    /\ rect # NoRect
    /\ Inside(face, image)
    /\ face.x = 0 /\ face.y = 0
    /\ face.width > 0 /\ face.height > 0
    /\ rect.width > face.width /\ rect.height > face.height

\* p is 1.1 * m rounded to the nearest integer, halves away from zero
\* (m >= 0): 11 m / 10 lies in [p - 1/2, p + 1/2).
IsRoundedPadding(p, m) == 10 * p - 5 <= 11 * m /\ 11 * m < 10 * p + 5

Paddings == 0..(2 * MaxDim + 1)

\* C11: with p = round(1.1 * max(width, height)), halves away from zero,
\* when the rectangle padded by p on all four sides stays inside the image
\* the crop is exactly (x - p, y - p, width + 2p, height + 2p).
C11_ExactPaddingWhenUnclamped ==
    \A p \in Paddings :
        (/\ rect # NoRect
         /\ Inside(face, image)
         /\ IsRoundedPadding(p, Max(face.width, face.height))
         /\ face.x - p >= 0 /\ face.y - p >= 0
         /\ face.x + face.width + p <= image.cols
         /\ face.y + face.height + p <= image.rows)
        => rect = [x |-> face.x - p, y |-> face.y - p,
                   width |-> face.width + 2 * p,
                   height |-> face.height + 2 * p]

\* A crop of a rectangle whose larger extent is 5, so that 1.1 * 5 = 5.5 is
\* rounded to 6, padded by 6 on all four sides without clamping.
C11_Witness ==
    /\ rect # NoRect
    /\ Inside(face, image)
    /\ Max(face.width, face.height) = 5
    /\ face.x >= 6 /\ face.y >= 6
    /\ face.x + face.width + 6 <= image.cols
    /\ face.y + face.height + 6 <= image.rows
    /\ rect.width = face.width + 12

\* C12 as stated: for a rectangle with x = 0 the crop has left = 0,
\* right = x + width + p, top = y - p and bottom = y + height + p.
C12_LeftEdgeOthersUnclamped ==
    \A p \in Paddings :
        (/\ rect # NoRect
         /\ Inside(face, image)
         /\ IsRoundedPadding(p, Max(face.width, face.height))
         /\ face.x = 0)
        => /\ rect.x = 0
           /\ rect.x + rect.width = face.x + face.width + p
           /\ rect.y = face.y - p
           /\ rect.y + rect.height = face.y + face.height + p

\* C12 amended: for a rectangle with x = 0 the crop has left = 0; each of
\* the right, top and bottom edges is the normally padded edge when that
\* edge lies inside the image and the image edge otherwise. The padding cut
\* off on the left is not added to any other side.
C12_LeftEdgeClamped ==
    \A p \in Paddings :
        (/\ rect # NoRect
         /\ Inside(face, image)
         /\ IsRoundedPadding(p, Max(face.width, face.height))
         /\ face.x = 0)
        => /\ rect.x = 0
           /\ rect.x + rect.width =
                IF face.x + face.width + p <= image.cols
                THEN face.x + face.width + p ELSE image.cols
           /\ rect.y = IF face.y - p >= 0 THEN face.y - p ELSE 0
           /\ rect.y + rect.height =
                IF face.y + face.height + p <= image.rows
                THEN face.y + face.height + p ELSE image.rows

\* A crop of a non-empty rectangle at x = 0 whose left padding is cut off
\* while the right, top and bottom edges are padded in full.
C12_Witness ==
    /\ rect # NoRect
    /\ Inside(face, image)
    /\ face.x = 0 /\ face.width > 0
    /\ rect.x = 0
    /\ rect.y > 0
    /\ rect.x + rect.width < image.cols
    /\ rect.y + rect.height < image.rows
    /\ rect.width > face.width

\* The children of the collected directory that are regular files with a
\* png, jpg or jpeg extension in any letter case, in enumeration order.
RECURSIVE ImageFilesOf(_, _)
ImageFilesOf(children, k) ==
    IF k = 0 THEN <<>>
    ELSE LET e == children[k]
             before == ImageFilesOf(children, k - 1)
         IN  IF e.kind = "file" /\ e.ext \in {"png", "PNG", "jpg", "JPG", "jpeg", "JPEG"}
             THEN Append(before, entry_path(k, e)) ELSE before

\* C13: on a directory, collect_image_files returns exactly the direct
\* children that are regular files with a png, jpg or jpeg extension
\* (case-insensitive); nothing else is returned.
C13_OnlyRegularImageFiles ==
    (collect_result.outcome = "Ok" /\ collect_path.kind = "dir")
    => collect_result.entries =
         ImageFilesOf(collect_path.children, Len(collect_path.children))

\* C14: collect_image_files never returns an error. For a regular file it
\* returns that one path iff its extension is whitelisted and nothing
\* otherwise; for a path that is neither a file nor a directory, or a
\* directory none of whose entries match, it returns the empty sequence.
C14_CollectNeverErr ==
    collect_result # NotCollected =>
        /\ collect_result.outcome # "Err"
        /\ collect_path.kind = "file" =>
             /\ collect_result.outcome = "Ok"
             /\ Len(collect_result.entries) <= 1
             /\ Len(collect_result.entries) = 1 <=>
                  collect_path.ext \in {"png", "PNG", "jpg", "JPG", "jpeg", "JPEG"}
             /\ \A i \in 1..Len(collect_result.entries) :
                  collect_result.entries[i] =
                      [stem |-> collect_path.stem, ext |-> collect_path.ext]
        /\ collect_path.kind = "none" => collect_result = Ok(<<>>)
        /\ (/\ collect_path.kind = "dir" /\ collect_path.readable
            /\ \A k \in 1..Len(collect_path.children) :
                 collect_path.children[k].ext \in {"txt", ""})
           => collect_result = Ok(<<>>)

\* collect_image_files has returned Ok(<<>>) for a path that is neither a
\* file nor a directory.
C14_Witness ==
    /\ collect_path.kind = "none"
    /\ collect_result = Ok(<<>>)

\* The events of run r in queue q, in order.
EventsOf(q, r) ==
    LET FromRun(env) == env.run = r
        mine == SelectSeq(q, FromRun)
    IN  [i \in 1..Len(mine) |-> mine[i].msg]

\* q is p with events appended at its end.
Extends(q, p) == Len(p) <= Len(q) /\ SubSeq(q, 1, Len(p)) = p

\* C19: the events of a run are handled in the order they were sent, none is
\* skipped, and a call of check_messages handles every event buffered when it
\* starts: it leaves the channel empty, and no other step handles an event.
C19_HandledInOrderAndDrained ==
    /\ [](\A r \in Runs : EventsOf(handled \o chan, r) = sent[r])
    /\ [][\/ chan' = <<>> /\ handled' = handled \o chan
          \/ handled' = handled /\ Extends(chan', chan)]_vars

\* check_messages has handled a whole run of at least three events, in the
\* order they were sent.
C19_Witness ==
    /\ chan = <<>>
    /\ Len(handled) >= 3
    /\ \E r \in Runs : EventsOf(handled, r) = sent[r] /\ Len(sent[r]) >= 3

\* The names {stem}_face_1.{ext} .. {stem}_face_f.{ext} of input file k with
\* its f detections.
FaceNames(k) ==
    {[stem |-> <<k, "_face_", j>>, ext |-> InputEntry(k).ext] :
        j \in 1..input_dir[k].faces}
AllFaceNames == UNION {FaceNames(k) : k \in 1..N}

\* Run r has sent Complete.
Completed(r) == Complete \in Range(sent[r])

Alive(r) == worker[r].pc \notin {"idle", "done", "panicked"}

\* C23: at most one batch worker thread is alive at a time; while the
\* processing flag is false no worker of an earlier run is still running or
\* able to send; and the events buffered for the consumer were all sent by
\* the latest run.
C23_OneWorkerAtATime ==
    /\ Cardinality({r \in Runs : Alive(r)}) <= 1
    /\ ~processing => \A r \in Runs : ~Alive(r)
    /\ \A i \in 1..Len(chan) : chan[i].run = runs

\* The Progress events run r has emitted.
ProgressSent(r) == {i \in 1..Len(sent[r]) : sent[r][i].type = "Progress"}

RECURSIVE FaceCountSum(_, _)
\* The sum of the face counts of the first n events of q that are
\* Progress events.
FaceCountSum(q, n) ==
    IF n = 0 THEN 0
    ELSE FaceCountSum(q, n - 1)
         + (IF q[n].type = "Progress" THEN q[n].face_count ELSE 0)

\* C24: when the consumer handles the Complete event of a run,
\* processed_images equals the number of Progress events that run emitted
\* and total_faces equals the number of export artifacts that run wrote,
\* which is the sum of the face counts of its Progress events, regardless
\* of earlier runs.
C24_CountersMatchRunAtComplete ==
    at_complete.run # 0 =>
        LET r == at_complete.run IN
        /\ at_complete.processed_images = Cardinality(ProgressSent(r))
        /\ at_complete.total_faces = Len(written[r])
        /\ at_complete.total_faces = FaceCountSum(sent[r], Len(sent[r]))

(* ================== properties of the command-line program ============= *)
\* One clip, cropped from the first detection, for each of the first k
\* entries with at least one detection.
RECURSIVE ClipsOf(_)
ClipsOf(k) ==
    IF k = 0 THEN <<>>
    ELSE IF input_dir[k].decode = "ok" /\ input_dir[k].faces > 0
         THEN Append(ClipsOf(k - 1),
                     [name |-> [stem |-> <<"clip_", k>>, ext |-> InputEntry(k).ext],
                      face |-> 0])
         ELSE ClipsOf(k - 1)

\* C22: in the single-face mode every image with at least one detection
\* yields exactly one artifact, clip_{filename}, and an image with no
\* detection or an empty raster yields none; while no operation fails the
\* progress bar has advanced once per file handled, and at completion its
\* position equals the number of input files.
C22_LegacyOneClipPerImage ==
    /\ cli.pc = "loop" =>
         /\ cli.pos = cli.i - 1
         /\ cli.written = ClipsOf(cli.i - 1)
    /\ (cli.pc = "done" /\ N >= 1) =>
         /\ cli.pos = N /\ cli.len = N
         /\ cli.written = ClipsOf(N)

\* The program has completed over an image with two detections and an empty
\* raster: one clip, progress 2 of 2.
C22_Witness ==
    /\ cli.pc = "done"
    /\ N = 2
    /\ input_dir[1].decode = "ok" /\ input_dir[1].faces = 2
    /\ input_dir[2].decode = "empty"
    /\ Len(cli.written) = 1

(* ======================== properties of the gallery ==================== *)
\* The path is in the current path-index map.
InMap(path) == path \in DOMAIN photo_map

\* A step of Gallery::update that receives at least one delivery.
Tick == thumb_chan # <<>> /\ thumb_chan' = <<>>

\* The buffered deliveries whose path is in the current map.
Hits == SelectSeq(thumb_chan, InMap)

\* The PhotoEntry of the path holds a thumbnail.
ThumbSet(path) ==
    \E i \in 1..Len(photos) :
        photos[i].path = path /\ photos[i].thumb_tex = "Some"

\* The paths whose decoded thumbnail is held by a PhotoEntry or by the cache.
Resident ==
    {photos[i].path : i \in {j \in 1..Len(photos) : photos[j].thumb_tex = "Some"}}
    \cup Range(texture_cache)

\* C15: the thumbnail cache never holds more than its capacity; an update
\* that inserts one new path into a full cache evicts exactly the least
\* recently inserted entry; one that re-inserts a cached path evicts nothing
\* and makes that path the most recent.
C15_LruCacheBounded ==
    /\ [](Len(texture_cache) <= CacheCapacity)
    /\ [][(Tick /\ Len(Hits) = 1) =>
            LET key == Hits[1]
                cached == key \in Range(texture_cache)
            IN  /\ (~cached /\ Len(texture_cache) = CacheCapacity)
                     => texture_cache' = Append(Tail(texture_cache), key)
                /\ (~cached /\ Len(texture_cache) < CacheCapacity)
                     => texture_cache' = Append(texture_cache, key)
                /\ cached
                     => /\ Range(texture_cache') = Range(texture_cache)
                        /\ Len(texture_cache') = Len(texture_cache)
                        /\ texture_cache'[Len(texture_cache')] = key]_vars

\* The cache is full and the thumbnail of one loaded photo has been evicted
\* from it.
C15_Witness ==
    /\ Len(texture_cache) = CacheCapacity
    /\ \E i \in 1..Len(photos) :
         /\ photos[i].thumb_tex = "Some"
         /\ photos[i].path \notin Range(texture_cache)

\* C16: the number of paths whose decoded thumbnail is held by a PhotoEntry
\* or by the cache never exceeds the cache capacity.
C16_ResidentWithinCapacity == Cardinality(Resident) <= CacheCapacity

\* C17: in Gallery::update a delivery whose path is not in the current map
\* is discarded: photos, map and cache are as if it had not been sent, and
\* the deliveries after it are still received and applied.
C17_StaleDeliveryDiscarded ==
    [][Tick =>
        LET g == drain([photos |-> photos, texture_cache |-> texture_cache,
                        drained |-> "", stopped |-> FALSE], Hits)
        IN  /\ photos' = g.photos
            /\ texture_cache' = g.texture_cache
            /\ photo_map' = photo_map
            /\ thumb_chan' = <<>>
            /\ Hits = <<>> => (photos' = photos /\ texture_cache' = texture_cache)]_vars

\* The last update discarded a stale delivery and then applied a later one.
C17_Witness == drained = "resumed"

\* C18: the thumbnail handle of a PhotoEntry is assigned a single time during
\* the entry's lifetime, also when the directory is reloaded while an
\* earlier loader thread is still delivering.
C18_ThumbnailAssignedOnce ==
    \A i \in 1..Len(photos) : photos[i].assigned <= 1

\* C20: a path that fails to decode gets no delivery, and every path that
\* decodes and is in the current map eventually has its thumbnail set (or
\* leaves the map), while the loader threads run and update() is polled.
C20_DecodeFailureIsolated ==
    /\ [](\A i \in 1..Len(thumb_chan) : thumb_chan[i] \notin undecodable)
    /\ \A path \in load_images_from_directory(GalleryFiles) :
         (InMap(path) /\ path \notin undecodable)
             ~> (~InMap(path) \/ ThumbSet(path))

\* After a single load, a photo that fails to decode has no thumbnail while
\* a photo after it in the loader's order has received its own.
C20_Witness ==
    /\ loads = 1
    /\ \E i, j \in 1..Len(photos) :
         /\ i < j
         /\ photos[i].path \in undecodable
         /\ photos[i].thumb_tex = "None"
         /\ photos[j].thumb_tex = "Some"

\* C25: the path-index map and the PhotoEntry collection are consistent
\* (one key per PhotoEntry; photo_map[path] = i exactly when photos[i].path
\* = path), and every path in the LRU cache is a key of the current map
\* whose PhotoEntry has a thumbnail; a reload re-establishes this by
\* clearing photos, map and cache together.
C25_MapPhotosCacheConsistent ==
    /\ Cardinality(DOMAIN photo_map) = Len(photos)
    /\ \A path \in DOMAIN photo_map : photo_map[path] \in 1..Len(photos)
    /\ \A i \in 1..Len(photos) : photos[i].path \in DOMAIN photo_map
    /\ \A path \in DOMAIN photo_map : \A i \in 1..Len(photos) :
           photo_map[path] = i <=> photos[i].path = path
    /\ \A k \in 1..Len(texture_cache) :
           /\ texture_cache[k] \in DOMAIN photo_map
           /\ photos[photo_map[texture_cache[k]]].thumb_tex = "Some"

\* After a reload some thumbnails of the new directory are cached and
\* others are still to come.
C25_Witness ==
    /\ loads = 2
    /\ Len(photos) >= 2
    /\ texture_cache # <<>>
    /\ \E i \in 1..Len(photos) : photos[i].thumb_tex = "None"

\* C26: whenever selected_photo is Some(i), i is a valid index into the
\* current PhotoEntry collection and refers to the photo the user selected,
\* after any sequence of thumbnail clicks, Previous / Next presses and
\* directory reloads.
C26_SelectedPhotoValid ==
    selected_photo # None =>
        /\ selected_photo[1] < Len(photos)
        /\ Some(photos[selected_photo[1] + 1].path) = selected_path

\* Every current PhotoEntry has a thumbnail.
AllLoaded == \A i \in 1..Len(photos) : photos[i].thumb_tex = "Some"

\* C27: after load_images_from_directory, when every discovered file
\* decodes and update() keeps being polled, is_loading eventually becomes
\* false, also for an empty directory and when the directory is reloaded
\* while an earlier loader thread is running; and whenever is_loading is
\* false after a load, every current PhotoEntry has a thumbnail.
C27_LoadingEnds ==
    /\ [](loads >= 1 /\ ~is_loading => AllLoaded)
    /\ (is_loading /\ undecodable = {}) ~> ~is_loading

\* The directory was reloaded while the first loader thread was running;
\* every photo of the new directory has its thumbnail and the flag is
\* down, the first thread still at work.
C27_Witness ==
    /\ loads = 2
    /\ undecodable = {}
    /\ Len(photos) >= 2
    /\ loaders[1] # <<>>
    /\ ~is_loading
    /\ AllLoaded

=============================================================================
